---- MODULE Spec2Model ----
(***************************************************************************)
(* acpush: the push session of lib.Uploader.Upload (src/lib/lib.go) as a   *)
(* state machine.  One session per behaviour; the remote server, the       *)
(* discovery collaborator and the file system are the environment, whose   *)
(* answers are drawn from small sets at the step that consumes them.       *)
(*                                                                         *)
(* Texts (error messages, label values) are sequences of string tokens;    *)
(* fmt.Errorf is concatenation of such sequences.                          *)
(***************************************************************************)
EXTENDS Integers, Sequences, FiniteSets, TLC

VARIABLES
    u,              \* the Uploader struct: Debug, Insecure, Uri (parsed form)
    pc,             \* position of the control flow inside Upload
    acifile,        \* the image file handle: state and read offset
    ascfile,        \* the signature file handle
    defers,         \* the deferred Close calls registered so far
    manifest,       \* result of aci.ManifestFromImage
    app,            \* result of discovery.NewAppFromString, labels mutated in place
    manblob,        \* manifest.MarshalJSON()
    initurl,        \* the discovered push endpoint
    initDeets,      \* the decoded initiateDetails
    part,           \* index of the part the loop of Upload is at (1..3)
    partErr,        \* err of the failed uploadPart while its failure is reported
    res,            \* the performRequest call in flight: result, body, trace
    server,         \* what the server did with the call in flight
    lastBody,       \* the response body the last initiateUpload or complete read
    ret,            \* the value Upload returned
    discoveryCalls, \* number of calls of discovery.DiscoverEndpoints
    eps,            \* what discovery.DiscoverEndpoints returned
    calls,          \* log of the performRequest calls of the session
    bodies,         \* the response body of each call: none, open or closed
    conf,           \* conf.AuthPerHost: the headers configured for each host
    req,            \* the *http.Request the SetHTTPHeaders closure is given
    cfg,            \* the Config GetConfigFrom is building
    loaded,         \* what GetConfigFromDir returned for each directory read
    loadRet         \* what GetConfigFrom returned

vars == << u, pc, acifile, ascfile, defers, manifest, app, manblob, initurl,
           initDeets, part, partErr, res, server, lastBody, ret, discoveryCalls,
           eps, calls, bodies, conf, req, cfg, loaded, loadRet >>

----------------------------------------------------------------------------
(* Bounds of the environment *)

\* The server answers a request with at most this many consecutive redirects.
MaxServerRedirects == 11

\* The read position aci.ManifestFromImage can leave the image file at.
MaxOffset == 2

----------------------------------------------------------------------------
(* Errors: Go's error interface.  NilErr is the nil error; an error with an *)
(* empty text is still an error.                                            *)

NilErr == [isErr |-> FALSE, text |-> << >>]

Err(text) == [isErr |-> TRUE, text |-> text]

----------------------------------------------------------------------------
(* Labels *)

archLabelName == "arch"

osLabelName == "os"

extLabelName == "ext"

\* schema.ACIExtension
ACIExtension == << ".", "aci" >>

EmptyLabels == [k \in {} |-> << >>]

\* The labels a target name can carry, and the ones a manifest can carry.
NameLabelValue == [arch |-> << "arm64" >>, os |-> << "freebsd" >>]

ManifestLabelValue == [arch |-> << "amd64" >>, os |-> << "linux" >>]

LabelSets(values) == { [k \in d |-> values[k]] : d \in SUBSET DOMAIN values }

\* app.Labels[k] = v
Put(labels, k, v) == [x \in DOMAIN labels \cup {k} |-> IF x = k THEN v ELSE labels[x]]

RECURSIVE TrimLeft(_, _)
TrimLeft(s, cut) ==
    IF s # << >> /\ Head(s) = cut THEN TrimLeft(Tail(s), cut) ELSE s

RECURSIVE TrimRight(_, _)
TrimRight(s, cut) ==
    IF s # << >> /\ s[Len(s)] = cut THEN TrimRight(SubSeq(s, 1, Len(s) - 1), cut) ELSE s

\* strings.Trim(s, cut)
Trim(s, cut) == TrimRight(TrimLeft(s, cut), cut)

\* fmt's %q
Quote(s) == << "\"", s, "\"" >>

MissingLabelErr(name) == Err(<< "manifest is missing label: " >> \o Quote(name))

\* CompleteLabel without the check of the manifest lookup's ok.
CompleteLabel_NoError(r, manLabels, name) ==
    IF r.err.isErr \/ name \in DOMAIN r.labels THEN r
    ELSE IF name \notin DOMAIN manLabels THEN r
    ELSE [r EXCEPT !.labels = Put(r.labels, name, manLabels[name])]

\* CompleteLabel with the manifest's label overwriting the target name's.
CompleteLabel_ManifestWins(r, manLabels, name) ==
    IF r.err.isErr THEN r
    ELSE IF name \in DOMAIN manLabels
         THEN [r EXCEPT !.labels = Put(r.labels, name, manLabels[name])]
    ELSE IF name \in DOMAIN r.labels THEN r
    ELSE [r EXCEPT !.err = MissingLabelErr(name)]

\* One of the two blocks of Upload that complete arch and os: the target
\* name's label wins, the manifest's is copied when the name has none.
CompleteLabel(r, manLabels, name) ==
    IF r.err.isErr \/ name \in DOMAIN r.labels THEN r
    ELSE IF name \notin DOMAIN manLabels
         THEN [r EXCEPT !.err = MissingLabelErr(name)]
         ELSE [r EXCEPT !.labels = Put(r.labels, name, manLabels[name])]

\* The ext block without the strings.Trim.
DefaultExt_NoTrim(r) ==
    IF r.err.isErr \/ extLabelName \in DOMAIN r.labels THEN r
    ELSE [r EXCEPT !.labels = Put(r.labels, extLabelName, ACIExtension)]

\* The third block: ext defaults to schema.ACIExtension without its dot.
DefaultExt(r) ==
    IF r.err.isErr \/ extLabelName \in DOMAIN r.labels THEN r
    ELSE [r EXCEPT !.labels = Put(r.labels, extLabelName, Trim(ACIExtension, "."))]

\* Lines 100-118 of Upload: the labels of the target name after the three
\* blocks, and the error of the first block that failed.
ResolveLabels(appLabels, manLabels) ==
    DefaultExt(
        CompleteLabel(
            CompleteLabel([err |-> NilErr, labels |-> appLabels], manLabels, archLabelName),
            manLabels, osLabelName))

----------------------------------------------------------------------------
(* JSON documents: a document is a function from its keys to their values.  *)

NoDoc == [k \in {} |-> << >>]

Field(doc, key, zero) == IF key \in DOMAIN doc THEN doc[key] ELSE zero

\* json.Marshal(completeMsg{...}): reason and server_reason are omitempty.
MarshalCompleteMsg(m) ==
    LET keys == {"success"}
                \cup (IF m.Reason # << >> THEN {"reason"} ELSE {})
                \cup (IF m.ServerReason # << >> THEN {"server_reason"} ELSE {})
    IN  [k \in keys |-> IF k = "success" THEN m.Success
                        ELSE IF k = "reason" THEN m.Reason
                        ELSE m.ServerReason]

\* A decoder taking an absent success for true.
UnmarshalCompleteMsg_DefaultTrue(doc) ==
    [Success      |-> Field(doc, "success", TRUE),
     Reason       |-> Field(doc, "reason", << >>),
     ServerReason |-> Field(doc, "server_reason", << >>)]

\* json.Unmarshal(respblob, &completeMsg{}): absent keys keep the zero value.
UnmarshalCompleteMsg(doc) ==
    [Success      |-> Field(doc, "success", FALSE),
     Reason       |-> Field(doc, "reason", << >>),
     ServerReason |-> Field(doc, "server_reason", << >>)]

\* json.Unmarshal(respblob, &initiateDetails{})
UnmarshalInitiateDetails(doc) ==
    [ACIPushVersion |-> Field(doc, "aci_push_version", ""),
     Multipart      |-> Field(doc, "multipart", FALSE),
     ManifestURL    |-> Field(doc, "upload_manifest_url", ""),
     SignatureURL   |-> Field(doc, "upload_signature_url", ""),
     ACIURL         |-> Field(doc, "upload_aci_url", ""),
     CompletedURL   |-> Field(doc, "completed_url", "")]

----------------------------------------------------------------------------
(* The answers of the environment *)

Endpoint1 == "https://push.example/init"

Endpoint2 == "https://mirror.example/init"

\* A string url.Parse rejects (invalid escape).
BadURL == "https://push.example/%zz"

\* http.NewRequest fails on a URL that does not parse; the empty URL parses.
ParsesAsURL(url) == url # BadURL

FullDetails ==
    [aci_push_version     |-> "0.0.1",
     multipart            |-> FALSE,
     upload_manifest_url  |-> "https://push.example/manifest",
     upload_signature_url |-> "https://push.example/signature",
     upload_aci_url       |-> "https://push.example/aci",
     completed_url        |-> "https://push.example/complete"]

URLKeys == {"upload_manifest_url", "upload_signature_url", "upload_aci_url", "completed_url"}

\* The JSON objects the server answers the initiation with: all four URLs,
\* one of them unparseable, or the completion URL left out.
InitiationDocs ==
    {FullDetails}
    \cup { [FullDetails EXCEPT ![k] = BadURL] : k \in URLKeys }
    \cup { [k \in DOMAIN FullDetails \ {"completed_url"} |-> FullDetails[k]] }

\* A response body as its reader sees it: ioutil.ReadAll may fail, and what
\* was read may not be JSON of the expected shape.
Body(readable, decodable, doc) ==
    [readable |-> readable, decodable |-> decodable, doc |-> doc]

NoBody == Body(FALSE, FALSE, NoDoc)

BrokenBodies == {Body(FALSE, FALSE, NoDoc), Body(TRUE, FALSE, NoDoc)}

InitiationBodies == BrokenBodies \cup { Body(TRUE, TRUE, d) : d \in InitiationDocs }

CompletionDocs ==
    { [success |-> TRUE],
      [success |-> FALSE, server_reason |-> << "rejected by server" >>],
      [success |-> FALSE],
      NoDoc }

CompletionBodies == BrokenBodies \cup { Body(TRUE, TRUE, d) : d \in CompletionDocs }

\* discovery.DiscoverEndpoints: (eps.ACIPushEndpoints, err)
DiscoveryResults ==
    { [err |-> Err(<< "discovery failed" >>), eps |-> << >>],
      [err |-> NilErr, eps |-> << >>],
      [err |-> NilErr, eps |-> << Endpoint1, Endpoint2 >>] }

\* http.StatusOK, http.StatusBadRequest
StatusOK == 200

StatusBadRequest == 400

\* The final (non-redirect) status codes the server answers with.
Codes == {StatusOK, StatusBadRequest, 500}

\* What the server does with one request chain: it redirects `redirects`
\* times in a row, then the connection fails or a final status arrives.
ServerBehaviours ==
    { [redirects |-> n, fails |-> FALSE, status |-> c] : n \in 0..MaxServerRedirects, c \in Codes }
    \cup { [redirects |-> n, fails |-> TRUE, status |-> 0] : n \in 0..MaxServerRedirects }

----------------------------------------------------------------------------
(* Transport: performRequest *)

\* len(via) at which CheckRedirect refuses to follow.
RedirectLimit == 10

\* Events of one performRequest call, in order: u.SetHTTPHeaders invoked on
\* the request of hop `hop`, and that request handed to the transport.
HdrEv(hop) == [ev |-> "hdr", hop |-> hop]

SendEv(hop) == [ev |-> "send", hop |-> hop]

\* u.SetHTTPHeaders(req)
SetHTTPHeaders(trace, hop) == Append(trace, HdrEv(hop))

\* CheckRedirect comparing with > instead of >=.
CheckRedirect_OffByOne(lenVia, trace) ==
    IF lenVia > RedirectLimit
    THEN [err |-> Err(<< "too many redirects" >>), trace |-> trace]
    ELSE [err |-> NilErr, trace |-> SetHTTPHeaders(trace, lenVia)]

\* CheckRedirect that does not call u.SetHTTPHeaders on the redirect target.
CheckRedirect_NoHeaders(lenVia, trace) ==
    IF lenVia >= RedirectLimit
    THEN [err |-> Err(<< "too many redirects" >>), trace |-> trace]
    ELSE [err |-> NilErr, trace |-> trace]

\* client.CheckRedirect: called before the request of hop lenVia is sent,
\* lenVia = len(via) being the number of requests already made.
CheckRedirect(lenVia, trace) ==
    IF lenVia >= RedirectLimit
    THEN [err |-> Err(<< "too many redirects" >>), trace |-> trace]
    ELSE [err |-> NilErr, trace |-> SetHTTPHeaders(trace, lenVia)]

\* client.Do(req): sends the request, and while the answer is a redirect
\* asks CheckRedirect and sends the next one.
RECURSIVE FollowRedirects(_, _, _)
FollowRedirects(srv, sent, trace) ==
    LET t == Append(trace, SendEv(sent))
    IN  IF sent < srv.redirects
        THEN LET c == CheckRedirect(sent + 1, t)
             IN  IF c.err.isErr
                 THEN [err |-> c.err, status |-> 0, trace |-> c.trace]
                 ELSE FollowRedirects(srv, sent + 1, c.trace)
        ELSE IF srv.fails
             THEN [err |-> Err(<< "transport error" >>), status |-> 0, trace |-> t]
             ELSE [err |-> NilErr, status |-> srv.status, trace |-> t]

\* A request without scheme and host fails in the transport at once.
ClientDo(url, srv, trace) ==
    IF url = ""
    THEN [err |-> Err(<< "unsupported protocol scheme" >>), status |-> 0,
          trace |-> Append(trace, SendEv(0))]
    ELSE FollowRedirects(srv, 0, trace)

\* The switch without the case for http.StatusBadRequest.
ClassifyStatus_OnlyOK(status) ==
    IF status = StatusOK THEN [err |-> NilErr, body |-> "open"]
    ELSE [err |-> Err(<< "bad HTTP status code: ", ToString(status) >>), body |-> "closed"]

\* The switch on res.StatusCode: the body is handed to the caller for 200
\* and 400, and closed for any other code.
ClassifyStatus(status) ==
    IF status = StatusOK THEN [err |-> NilErr, body |-> "open"]
    ELSE IF status = StatusBadRequest THEN [err |-> NilErr, body |-> "open"]
    ELSE [err |-> Err(<< "bad HTTP status code: ", ToString(status) >>), body |-> "closed"]

\* genProgressBar: fails when file.Stat() fails.
genProgressBar(statFails) ==
    IF statFails THEN Err(<< "stat failed" >>) ELSE NilErr

NoRes == [active |-> FALSE, err |-> NilErr, body |-> "none", status |-> 0, trace |-> << >>]

Result(err, body, status, trace) ==
    [active |-> TRUE, err |-> err, body |-> body, status |-> status, trace |-> trace]

performRequest(debug, url, isFile, draw, statFails, srv) ==
    IF draw /\ isFile /\ debug /\ genProgressBar(statFails).isErr
    THEN Result(genProgressBar(statFails), "none", 0, << >>)
    ELSE IF ~ParsesAsURL(url)
    THEN Result(Err(<< "parse ", url, ": invalid URL escape" >>), "none", 0, << >>)
    ELSE LET d == ClientDo(url, srv, SetHTTPHeaders(<< >>, 0))
         IN  IF d.err.isErr
             THEN Result(d.err, "none", 0, d.trace)
             ELSE LET c == ClassifyStatus(d.status)
                  IN  Result(c.err, c.body, d.status, d.trace)

\* The requests of a trace that were handed to the transport.
Sends(trace) == { i \in 1..Len(trace) : trace[i].ev = "send" }

HdrCalls(trace) == { i \in 1..Len(trace) : trace[i].ev = "hdr" }

----------------------------------------------------------------------------
(* The session: Uploader.Upload *)

NoFile == [state |-> "unopened", offset |-> 0]

NoManifest == [ok |-> FALSE, labels |-> EmptyLabels]

NoApp == [ok |-> FALSE, labels |-> EmptyLabels]

NoBlob == [ok |-> FALSE, doc |-> NoDoc]

NoDeets == [ok |-> FALSE, details |-> UnmarshalInitiateDetails(NoDoc)]

NotReturned == [returned |-> FALSE, err |-> NilErr]

NoServer == [redirects |-> 0, fails |-> FALSE, status |-> 0]

NoDiscovery == [err |-> NilErr, eps |-> << >>]

\* http.Header: the values of each key, in order
NoHeader == [k \in {} |-> << >>]

\* A configuration without credentials, and no request at hand.
NoAuth == [h \in {} |-> NoHeader]

NoRequest == [urlNil |-> TRUE, host |-> "", header |-> NoHeader]

\* DockerCredentialsPerRegistry without entries
NoCreds == [r \in {} |-> << >>]

\* newConfig()
newConfig == [isNil |-> FALSE, AuthPerHost |-> NoAuth, DockerCredentialsPerRegistry |-> NoCreds]

\* A nil *Config
NilConfig == [isNil |-> TRUE, AuthPerHost |-> NoAuth, DockerCredentialsPerRegistry |-> NoCreds]

NotLoaded == [returned |-> FALSE, cfg |-> NilConfig, err |-> NilErr]

\* The state GetConfigFrom leaves when the system directory holds the
\* credentials `auth`, and nothing else, and the local directory is missing.
ConfigLoaded(auth) ==
    /\ cfg = [newConfig EXCEPT !.AuthPerHost = auth]
    /\ loaded = << [cfg |-> [newConfig EXCEPT !.AuthPerHost = auth], err |-> NilErr],
                   [cfg |-> newConfig, err |-> NilErr] >>
    /\ loadRet = [returned |-> TRUE, cfg |-> [newConfig EXCEPT !.AuthPerHost = auth],
                  err |-> NilErr]

\* `defer resp.Close()` of initiateUpload and of complete, running after
\* ioutil.ReadAll and json.Unmarshal only.
DeferredClose_AfterRead(r, body) ==
    IF r.err.isErr THEN r.body
    ELSE IF ~body.readable \/ ~body.decodable THEN "open"
    ELSE "closed"

\* `defer resp.Close()` of initiateUpload and of complete: registered once
\* performRequest returned a body, it runs on every return that follows,
\* whatever reading and decoding `body` gave.
DeferredClose(r, body) ==
    IF r.err.isErr THEN r.body ELSE "closed"

\* resp.Close() of uploadPart
PartClose(r) ==
    IF r.err.isErr THEN r.body ELSE "closed"

\* What discovery.NewAppFromString makes of u.Uri: a parse error, or a name
\* with the labels written in it.
Uris ==
    { [valid |-> FALSE, labels |-> EmptyLabels] }
    \cup { [valid |-> TRUE, labels |-> l] : l \in LabelSets(NameLabelValue) }

Uploaders ==
    [Acipath : {"image.aci"}, Ascpath : {"image.aci.asc"}, Uri : Uris,
     Insecure : BOOLEAN, Debug : BOOLEAN]

Init ==
    /\ u \in Uploaders
    /\ pc = "openAci"
    /\ acifile = NoFile
    /\ ascfile = NoFile
    /\ defers = << >>
    /\ manifest = NoManifest
    /\ app = NoApp
    /\ manblob = NoBlob
    /\ initurl = ""
    /\ initDeets = NoDeets
    /\ part = 1
    /\ partErr = NilErr
    /\ res = NoRes
    /\ server = NoServer
    /\ lastBody = NoBody
    /\ ret = NotReturned
    /\ discoveryCalls = 0
    /\ eps = NoDiscovery
    /\ calls = << >>
    /\ bodies = << >>
    /\ conf = NoAuth
    /\ req = NoRequest
    /\ ConfigLoaded(conf)

\* `return e`: the result is set, the deferred calls are still to run.
Return(e) ==
    /\ ret' = [returned |-> TRUE, err |-> e]
    /\ pc' = "defers"

\* The entry of the session log for one performRequest call.
LogCall(kind, reqType, url, r, msg, bodyFrom) ==
    [kind |-> kind, reqType |-> reqType, url |-> url,
     issued |-> Sends(r.trace) # {}, ok |-> ~r.err.isErr, err |-> r.err,
     msg |-> msg, bodyFrom |-> bodyFrom]

\* os.Open(u.Acipath); defer acifile.Close()
OpenAci ==
    /\ pc = "openAci"
    /\ \E ok \in BOOLEAN :
         IF ok
         THEN /\ acifile' = [state |-> "open", offset |-> 0]
              /\ defers' = Append(defers, "acifile")
              /\ pc' = "openAsc"
              /\ ret' = ret
         ELSE /\ Return(Err(<< "open ", u.Acipath, ": no such file or directory" >>))
              /\ UNCHANGED << acifile, defers >>
    /\ UNCHANGED << u, ascfile, manifest, app, manblob, initurl, initDeets,
                    part, partErr, res, discoveryCalls, calls, server,
                    lastBody, eps, bodies, conf, req,
                    cfg, loaded, loadRet >>

\* os.Open(u.Ascpath); defer ascfile.Close()
OpenAsc ==
    /\ pc = "openAsc"
    /\ \E ok \in BOOLEAN :
         IF ok
         THEN /\ ascfile' = [state |-> "open", offset |-> 0]
              /\ defers' = Append(defers, "ascfile")
              /\ pc' = "manifestFromImage"
              /\ ret' = ret
         ELSE /\ Return(Err(<< "open ", u.Ascpath, ": no such file or directory" >>))
              /\ UNCHANGED << ascfile, defers >>
    /\ UNCHANGED << u, acifile, manifest, app, manblob, initurl, initDeets,
                    part, partErr, res, discoveryCalls, calls, server,
                    lastBody, eps, bodies, conf, req,
                    cfg, loaded, loadRet >>

\* aci.ManifestFromImage(acifile): reads the image, leaving the cursor
\* anywhere in it.
ManifestFromImage ==
    /\ pc = "manifestFromImage"
    /\ \E off \in 0..MaxOffset :
         /\ acifile' = [acifile EXCEPT !.offset = off]
         /\ \/ /\ \E l \in LabelSets(ManifestLabelValue) :
                    manifest' = [ok |-> TRUE, labels |-> l]
               /\ pc' = "newApp"
               /\ ret' = ret
            \/ /\ Return(Err(<< "missing manifest" >>))
               /\ manifest' = manifest
    /\ UNCHANGED << u, ascfile, defers, app, manblob, initurl, initDeets,
                    part, partErr, res, discoveryCalls, calls, server,
                    lastBody, eps, bodies, conf, req,
                    cfg, loaded, loadRet >>

\* discovery.NewAppFromString(u.Uri)
NewAppFromString ==
    /\ pc = "newApp"
    /\ IF u.Uri.valid
       THEN /\ app' = [ok |-> TRUE, labels |-> u.Uri.labels]
            /\ pc' = "labels"
            /\ ret' = ret
       ELSE /\ Return(Err(<< "malformed app name" >>))
            /\ app' = app
    /\ UNCHANGED << u, acifile, ascfile, defers, manifest, manblob, initurl,
                    initDeets, part, partErr, res, discoveryCalls, calls, server,
                    lastBody, eps, bodies, conf, req,
                    cfg, loaded, loadRet >>

\* The three label blocks of Upload; app.Labels is updated in place, also by
\* the block that ran before a failing one.
CompleteLabels ==
    /\ pc = "labels"
    /\ LET r == ResolveLabels(app.labels, manifest.labels)
       IN  /\ app' = [app EXCEPT !.labels = r.labels]
           /\ IF r.err.isErr
              THEN Return(r.err)
              ELSE pc' = "seek" /\ ret' = ret
    /\ UNCHANGED << u, acifile, ascfile, defers, manifest, manblob, initurl,
                    initDeets, part, partErr, res, discoveryCalls, calls, server,
                    lastBody, eps, bodies, conf, req,
                    cfg, loaded, loadRet >>

\* Upload without the rewind of the image file.
SeekStart_NoRewind ==
    /\ pc = "seek"
    /\ \E ok \in BOOLEAN :
         IF ok
         THEN /\ pc' = "marshal"
              /\ ret' = ret
         ELSE Return(Err(<< "seek ", u.Acipath, ": invalid argument" >>))
    /\ UNCHANGED << u, acifile, ascfile, defers, manifest, app, manblob, initurl,
                    initDeets, part, partErr, res, discoveryCalls, calls, server,
                    lastBody, eps, bodies, conf, req,
                    cfg, loaded, loadRet >>

\* acifile.Seek(0, 0)
SeekStart ==
    /\ pc = "seek"
    /\ \E ok \in BOOLEAN :
         IF ok
         THEN /\ acifile' = [acifile EXCEPT !.offset = 0]
              /\ pc' = "marshal"
              /\ ret' = ret
         ELSE /\ Return(Err(<< "seek ", u.Acipath, ": invalid argument" >>))
              /\ acifile' = acifile
    /\ UNCHANGED << u, ascfile, defers, manifest, app, manblob, initurl,
                    initDeets, part, partErr, res, discoveryCalls, calls, server,
                    lastBody, eps, bodies, conf, req,
                    cfg, loaded, loadRet >>

\* manifest.MarshalJSON()
MarshalManifest ==
    /\ pc = "marshal"
    /\ \E ok \in BOOLEAN :
         IF ok
         THEN /\ manblob' = [ok |-> TRUE, doc |-> [acKind |-> "ImageManifest", labels |-> manifest.labels]]
              /\ pc' = "discover"
              /\ ret' = ret
         ELSE /\ Return(Err(<< "invalid manifest" >>))
              /\ manblob' = manblob
    /\ UNCHANGED << u, acifile, ascfile, defers, manifest, app, initurl,
                    initDeets, part, partErr, res, discoveryCalls, calls, server,
                    lastBody, eps, bodies, conf, req,
                    cfg, loaded, loadRet >>

\* getInitiationURL without the check for an empty endpoint list.
FirstEndpoint_NoEmptyCheck(d) ==
    IF d.err.isErr THEN [err |-> d.err, url |-> ""]
    ELSE [err |-> NilErr, url |-> IF Len(d.eps) = 0 THEN "" ELSE d.eps[1]]

\* eps.ACIPushEndpoints[0], or the error of getInitiationURL
FirstEndpoint(d) ==
    IF d.err.isErr THEN [err |-> d.err, url |-> ""]
    ELSE IF Len(d.eps) = 0 THEN [err |-> Err(<< "no endpoints discovered" >>), url |-> ""]
    ELSE [err |-> NilErr, url |-> d.eps[1]]

\* u.getInitiationURL(app)
GetInitiationURL ==
    /\ pc = "discover"
    /\ discoveryCalls' = discoveryCalls + 1
    /\ \E d \in DiscoveryResults :
         LET r == FirstEndpoint(d)
         IN  /\ eps' = d
             /\ IF r.err.isErr
                THEN Return(r.err) /\ initurl' = initurl
                ELSE initurl' = r.url /\ pc' = "initiate" /\ ret' = ret
    /\ UNCHANGED << u, acifile, ascfile, defers, manifest, app, manblob,
                    initDeets, part, partErr, res, calls, server, lastBody,
                    bodies, conf, req,
                    cfg, loaded, loadRet >>

\* initiateUpload, up to the return of performRequest("POST", initurl, nil)
InitiateRequest ==
    /\ pc = "initiate"
    /\ \E srv \in ServerBehaviours :
         LET r == performRequest(u.Debug, initurl, FALSE, FALSE, FALSE, srv)
         IN  /\ res' = r
             /\ server' = srv
             /\ calls' = Append(calls, LogCall("initiate", "POST", initurl, r, NoDoc, 0))
             /\ bodies' = Append(bodies, r.body)
    /\ pc' = "initiateResponse"
    /\ UNCHANGED << u, acifile, ascfile, defers, manifest, app, manblob,
                    initurl, initDeets, part, partErr, ret, discoveryCalls,
                    lastBody, eps, conf, req,
                    cfg, loaded, loadRet >>

\* The rest of initiateUpload: (deets, err)
DecodeInitiation(r, body) ==
    IF r.err.isErr THEN [err |-> r.err, deets |-> NoDeets]
    ELSE IF ~body.readable THEN [err |-> Err(<< "unexpected EOF" >>), deets |-> NoDeets]
    ELSE IF ~body.decodable
         THEN [err |-> Err(<< "invalid character" >>), deets |-> NoDeets]
    ELSE [err |-> NilErr, deets |-> [ok |-> TRUE, details |-> UnmarshalInitiateDetails(body.doc)]]

InitiateResponse ==
    /\ pc = "initiateResponse"
    /\ \E body \in (IF res.err.isErr THEN {NoBody} ELSE InitiationBodies) :
         LET d == DecodeInitiation(res, body)
         IN  /\ lastBody' = body
             /\ bodies' = [bodies EXCEPT ![Len(bodies)] = DeferredClose(res, body)]
             /\ IF d.err.isErr
                THEN Return(d.err) /\ initDeets' = initDeets
                ELSE initDeets' = d.deets /\ pc' = "uploadPart" /\ ret' = ret
    /\ res' = NoRes
    /\ server' = NoServer
    /\ UNCHANGED << u, acifile, ascfile, defers, manifest, app, manblob,
                    initurl, part, partErr, discoveryCalls, calls, eps, conf, req,
                    cfg, loaded, loadRet >>

\* The parts with the signature ahead of the manifest.
PartsToUpload_SignatureFirst(deets) ==
    << [label |-> "signature", url |-> deets.SignatureURL, src |-> "ascfile", draw |-> TRUE],
       [label |-> "manifest", url |-> deets.ManifestURL, src |-> "manblob", draw |-> FALSE],
       [label |-> "ACI", url |-> deets.ACIURL, src |-> "acifile", draw |-> TRUE] >>

\* The slice of partToUpload values the loop of Upload ranges over.
PartsToUpload(deets) ==
    << [label |-> "manifest", url |-> deets.ManifestURL, src |-> "manblob", draw |-> FALSE],
       [label |-> "signature", url |-> deets.SignatureURL, src |-> "ascfile", draw |-> TRUE],
       [label |-> "ACI", url |-> deets.ACIURL, src |-> "acifile", draw |-> TRUE] >>

\* body.(*os.File) succeeds for the two files, not for the bytes.Reader.
IsFile(src) == src \in {"ascfile", "acifile"}

\* http.NewRequest keeps a body that is an io.ReadCloser as the request's
\* Body, and the transport closes the Body of every request client.Do is
\* given.  The *os.File is such a body; the ioprogress.Reader that wraps it
\* under Debug and the bytes.Reader are not.
SentBody(file, src, name, draw, debug, r) ==
    IF src = name /\ ~(draw /\ debug) /\ Sends(r.trace) # {}
    THEN [file EXCEPT !.state = "closed"]
    ELSE file

\* uploadPart, up to the return of performRequest("PUT", url, body, draw, label)
UploadPartRequest ==
    /\ pc = "uploadPart"
    /\ LET p == PartsToUpload(initDeets.details)[part]
           from == IF p.src = "ascfile" THEN ascfile.offset
                   ELSE IF p.src = "acifile" THEN acifile.offset ELSE 0
       IN  \E srv \in ServerBehaviours :
           \E statFails \in (IF p.draw /\ IsFile(p.src) /\ u.Debug THEN BOOLEAN ELSE {FALSE}) :
             LET r == performRequest(u.Debug, p.url, IsFile(p.src), p.draw, statFails, srv)
             IN  /\ res' = r
                 /\ server' = srv
                 /\ calls' = Append(calls, LogCall(p.label, "PUT", p.url, r, NoDoc, from))
                 /\ bodies' = Append(bodies, r.body)
                 /\ acifile' = SentBody(acifile, p.src, "acifile", p.draw, u.Debug, r)
                 /\ ascfile' = SentBody(ascfile, p.src, "ascfile", p.draw, u.Debug, r)
    /\ pc' = "uploadPartResponse"
    /\ UNCHANGED << u, defers, manifest, app, manblob, initurl, initDeets, part,
                    partErr, ret, discoveryCalls, lastBody, eps, conf, req,
                    cfg, loaded, loadRet >>

\* The loop of Upload without the check of uploadPart's error.
AfterPart_IgnoreFailure(r, i) ==
    IF i < Len(PartsToUpload(NoDeets.details)) THEN "uploadPart"
    ELSE "reportSuccess"

\* uploadPart taking an answer of 400 for a failure.
AfterPart_RejectBadRequest(r, i) ==
    IF r.err.isErr \/ r.status = StatusBadRequest THEN "reportFailure"
    ELSE IF i < Len(PartsToUpload(NoDeets.details)) THEN "uploadPart"
    ELSE "reportSuccess"

\* The rest of uploadPart (resp.Close()) and the loop of Upload: on an error
\* the failure is reported, otherwise the next part is uploaded, and after
\* the last one success is reported.
AfterPart(r, i) ==
    IF r.err.isErr THEN "reportFailure"
    ELSE IF i < Len(PartsToUpload(NoDeets.details)) THEN "uploadPart"
    ELSE "reportSuccess"

\* The loop of Upload calling uploadPart again for a part that failed.
UploadPartResponse_RetryOnce ==
    /\ pc = "uploadPartResponse"
    /\ pc' = IF res.err.isErr /\ Len(calls) < 5 THEN "uploadPart" ELSE AfterPart(res, part)
    /\ partErr' = res.err
    /\ bodies' = [bodies EXCEPT ![Len(bodies)] = PartClose(res)]
    /\ part' = IF ~res.err.isErr /\ AfterPart(res, part) = "uploadPart" THEN part + 1 ELSE part
    /\ res' = NoRes
    /\ server' = NoServer
    /\ UNCHANGED << u, acifile, ascfile, defers, manifest, app, manblob,
                    initurl, initDeets, ret, discoveryCalls, calls, lastBody,
                    eps, conf, req,
                    cfg, loaded, loadRet >>

UploadPartResponse ==
    /\ pc = "uploadPartResponse"
    /\ pc' = AfterPart(res, part)
    /\ partErr' = res.err
    /\ bodies' = [bodies EXCEPT ![Len(bodies)] = PartClose(res)]
    /\ part' = IF AfterPart(res, part) = "uploadPart" THEN part + 1 ELSE part
    /\ res' = NoRes
    /\ server' = NoServer
    /\ UNCHANGED << u, acifile, ascfile, defers, manifest, app, manblob,
                    initurl, initDeets, ret, discoveryCalls, calls, lastBody,
                    eps, conf, req,
                    cfg, loaded, loadRet >>

\* reason := fmt.Errorf("error uploading %s: %v", part.label, err)
UploadReason(label, err) ==
    Err(<< "error uploading ", label, ": " >> \o err.text)

\* fmt.Errorf("error uploading %s and error reporting failure: %v, %v", ...)
CombinedErr(label, err, reportErr) ==
    Err(<< "error uploading ", label, " and error reporting failure: " >>
        \o err.text \o << ", " >> \o reportErr.text)

\* Upload dropping the error of the report.
FailureResult_DropReportErr(label, err, reportErr) ==
    UploadReason(label, err)

\* Upload returning the combined error whatever the report returned.
FailureResult_AlwaysCombined(label, err, reportErr) ==
    CombinedErr(label, err, reportErr)

\* What Upload returns once the failure of a part has been reported.
FailureResult(label, err, reportErr) ==
    IF reportErr.isErr THEN CombinedErr(label, err, reportErr)
    ELSE UploadReason(label, err)

\* completeMsg{true, "", ""} and completeMsg{false, reason, ""}
SuccessMsg == [Success |-> TRUE, Reason |-> << >>, ServerReason |-> << >>]

FailureMsg(reason) == [Success |-> FALSE, Reason |-> reason, ServerReason |-> << >>]

\* complete, up to the return of performRequest("POST", url, blob)
CompleteRequest(msg, next) ==
    /\ \E srv \in ServerBehaviours :
         LET url == initDeets.details.CompletedURL
             r == performRequest(u.Debug, url, FALSE, FALSE, FALSE, srv)
         IN  /\ res' = r
             /\ server' = srv
             /\ calls' = Append(calls, LogCall("complete", "POST", url, r, MarshalCompleteMsg(msg), 0))
             /\ bodies' = Append(bodies, r.body)
    /\ pc' = next
    /\ UNCHANGED << u, acifile, ascfile, defers, manifest, app, manblob,
                    initurl, initDeets, part, partErr, ret, discoveryCalls,
                    lastBody, eps, conf, req,
                    cfg, loaded, loadRet >>

\* u.reportFailure(initDeets.CompletedURL, reason.Error())
ReportFailureRequest ==
    /\ pc = "reportFailure"
    /\ CompleteRequest(
         FailureMsg(UploadReason(PartsToUpload(initDeets.details)[part].label, partErr).text),
         "reportFailureResponse")

\* u.reportSuccess(initDeets.CompletedURL)
ReportSuccessRequest ==
    /\ pc = "reportSuccess"
    /\ CompleteRequest(SuccessMsg, "reportSuccessResponse")

\* complete without the check of reply.Success.
complete_IgnoreSuccessFlag(r, body) ==
    IF r.err.isErr THEN r.err
    ELSE IF ~body.readable THEN Err(<< "unexpected EOF" >>)
    ELSE IF ~body.decodable THEN Err(<< "invalid character" >>)
    ELSE NilErr

\* The rest of complete: the error it returns for the reply `body`.
complete(r, body) ==
    IF r.err.isErr THEN r.err
    ELSE IF ~body.readable THEN Err(<< "unexpected EOF" >>)
    ELSE IF ~body.decodable THEN Err(<< "invalid character" >>)
    ELSE IF ~UnmarshalCompleteMsg(body.doc).Success
         THEN Err(UnmarshalCompleteMsg(body.doc).ServerReason)
    ELSE NilErr

ReportFailureResponse ==
    /\ pc = "reportFailureResponse"
    /\ \E body \in (IF res.err.isErr THEN {NoBody} ELSE CompletionBodies) :
         /\ lastBody' = body
         /\ bodies' = [bodies EXCEPT ![Len(bodies)] = DeferredClose(res, body)]
         /\ Return(FailureResult(PartsToUpload(initDeets.details)[part].label, partErr,
                                 complete(res, body)))
    /\ res' = NoRes
    /\ server' = NoServer
    /\ UNCHANGED << u, acifile, ascfile, defers, manifest, app, manblob,
                    initurl, initDeets, part, partErr, discoveryCalls, calls,
                    eps, conf, req,
                    cfg, loaded, loadRet >>

ReportSuccessResponse ==
    /\ pc = "reportSuccessResponse"
    /\ \E body \in (IF res.err.isErr THEN {NoBody} ELSE CompletionBodies) :
         /\ lastBody' = body
         /\ bodies' = [bodies EXCEPT ![Len(bodies)] = DeferredClose(res, body)]
         /\ Return(complete(res, body))
    /\ res' = NoRes
    /\ server' = NoServer
    /\ UNCHANGED << u, acifile, ascfile, defers, manifest, app, manblob,
                    initurl, initDeets, part, partErr, discoveryCalls, calls,
                    eps, conf, req,
                    cfg, loaded, loadRet >>

\* Upload with the Close of the image file never deferred.
Close_OnlyAsc(file, name) ==
    IF name = "ascfile" /\ \E i \in 1..Len(defers) : defers[i] = name
    THEN [file EXCEPT !.state = "closed"]
    ELSE file

\* A deferred Close()
Close(file, name) ==
    IF \E i \in 1..Len(defers) : defers[i] = name
    THEN [file EXCEPT !.state = "closed"]
    ELSE file

\* Upload returns: the deferred calls run.
RunDefers ==
    /\ pc = "defers"
    /\ acifile' = Close(acifile, "acifile")
    /\ ascfile' = Close(ascfile, "ascfile")
    /\ defers' = << >>
    /\ pc' = "done"
    /\ UNCHANGED << u, manifest, app, manblob, initurl, initDeets, part,
                    partErr, res, ret, discoveryCalls, calls, server, lastBody,
                    eps, bodies, conf, req,
                    cfg, loaded, loadRet >>

Next ==
    \/ OpenAci
    \/ OpenAsc
    \/ ManifestFromImage
    \/ NewAppFromString
    \/ CompleteLabels
    \/ SeekStart
    \/ MarshalManifest
    \/ GetInitiationURL
    \/ InitiateRequest
    \/ InitiateResponse
    \/ UploadPartRequest
    \/ UploadPartResponse
    \/ ReportFailureRequest
    \/ ReportFailureResponse
    \/ ReportSuccessRequest
    \/ ReportSuccessResponse
    \/ RunDefers

Spec == Init /\ [][Next]_vars

\* Upload runs in one goroutine and every call it makes returns: a step that
\* can be taken is taken.
FairSpec == Spec /\ WF_vars(Next)

----------------------------------------------------------------------------
(* Status classification on its own: one request, answered without a       *)
(* redirect by any status code.                                             *)

StatusCodes == 100..599

InitStatus ==
    /\ u \in Uploaders
    /\ pc = "status"
    /\ acifile = NoFile
    /\ ascfile = NoFile
    /\ defers = << >>
    /\ manifest = NoManifest
    /\ app = NoApp
    /\ manblob = NoBlob
    /\ initurl = Endpoint1
    /\ initDeets = NoDeets
    /\ part = 1
    /\ partErr = NilErr
    /\ res = NoRes
    /\ server = NoServer
    /\ lastBody = NoBody
    /\ ret = NotReturned
    /\ discoveryCalls = 0
    /\ eps = NoDiscovery
    /\ calls = << >>
    /\ bodies = << >>
    /\ conf = NoAuth
    /\ req = NoRequest
    /\ ConfigLoaded(conf)

\* performRequest("POST", initurl, nil, false, "") answered with `code`
AnswerWithStatus ==
    /\ pc = "status"
    /\ \E code \in StatusCodes :
         LET srv == [redirects |-> 0, fails |-> FALSE, status |-> code]
         IN  /\ res' = performRequest(u.Debug, initurl, FALSE, FALSE, FALSE, srv)
             /\ server' = srv
    /\ pc' = "statusDone"
    /\ UNCHANGED << u, acifile, ascfile, defers, manifest, app, manblob, initurl,
                    initDeets, part, partErr, lastBody, ret, discoveryCalls, eps,
                    calls, bodies, conf, req,
                    cfg, loaded, loadRet >>

NextStatus == AnswerWithStatus

SpecStatus == InitStatus /\ [][NextStatus]_vars

----------------------------------------------------------------------------
(* Label resolution on its own: the session from discovery.NewAppFromString *)
(* to the discovery call, over every combination of the labels the target  *)
(* name and the manifest can carry.                                         *)

AllNameLabelValue ==
    [arch |-> << "arm64" >>, os |-> << "freebsd" >>, ext |-> << "tar" >>,
     version |-> << "1.0.0" >>]

AllManifestLabelValue ==
    [arch |-> << "amd64" >>, os |-> << "linux" >>, ext |-> << "tgz" >>,
     version |-> << "2.0.0" >>]

LabelUris ==
    { [valid |-> FALSE, labels |-> EmptyLabels] }
    \cup { [valid |-> TRUE, labels |-> l] : l \in LabelSets(AllNameLabelValue) }

LabelUploaders ==
    [Acipath : {"image.aci"}, Ascpath : {"image.aci.asc"}, Uri : LabelUris,
     Insecure : BOOLEAN, Debug : BOOLEAN]

\* Both files are open and aci.ManifestFromImage has returned a manifest.
InitLabels ==
    /\ u \in LabelUploaders
    /\ pc = "newApp"
    /\ \E off \in 0..MaxOffset : acifile = [state |-> "open", offset |-> off]
    /\ ascfile = [state |-> "open", offset |-> 0]
    /\ defers = << "acifile", "ascfile" >>
    /\ \E l \in LabelSets(AllManifestLabelValue) : manifest = [ok |-> TRUE, labels |-> l]
    /\ app = NoApp
    /\ manblob = NoBlob
    /\ initurl = ""
    /\ initDeets = NoDeets
    /\ part = 1
    /\ partErr = NilErr
    /\ res = NoRes
    /\ server = NoServer
    /\ lastBody = NoBody
    /\ ret = NotReturned
    /\ discoveryCalls = 0
    /\ eps = NoDiscovery
    /\ calls = << >>
    /\ bodies = << >>
    /\ conf = NoAuth
    /\ req = NoRequest
    /\ ConfigLoaded(conf)

NextLabels ==
    \/ NewAppFromString
    \/ CompleteLabels
    \/ SeekStart
    \/ MarshalManifest
    \/ GetInitiationURL
    \/ RunDefers

SpecLabels == InitLabels /\ [][NextLabels]_vars

----------------------------------------------------------------------------
(* Auth injection on its own: the closure runACPush gives the Uploader as   *)
(* SetHTTPHeaders (src/main.go), applied to one request.                    *)

Hosts == {"push.example", "mirror.example"}

\* What headerer.Header() returns for a host with credentials.
AuthHeaders ==
    { "Authorization" :> << "Basic dXNlcjpwdw==" >>,
      "Authorization" :> << "Bearer token" >>,
      ("Authorization" :> << "Bearer token", "Bearer spare" >>) @@ ("X-Registry" :> << "v2" >>) }

\* conf.AuthPerHost: any of the hosts may have credentials.
AuthConfigs == UNION { [d -> AuthHeaders] : d \in SUBSET Hosts }

\* The headers a request carries before the closure runs.
RequestHeaders ==
    { NoHeader,
      "Authorization" :> << "Basic old" >>,
      "User-Agent" :> << "acpush" >>,
      ("Authorization" :> << "Basic old" >>) @@ ("User-Agent" :> << "acpush" >>) }

Requests ==
    { [urlNil |-> TRUE, host |-> "", header |-> h] : h \in RequestHeaders }
    \cup { [urlNil |-> FALSE, host |-> h, header |-> hd] : h \in Hosts, hd \in RequestHeaders }

\* The closure assigning the configured values instead of appending them.
SetHTTPHeadersFunc_Replace(r, authPerHost) ==
    IF r.urlNil THEN r
    ELSE IF r.host \notin DOMAIN authPerHost THEN r
    ELSE LET header == authPerHost[r.host]
         IN  [r EXCEPT !.header =
                 [k \in DOMAIN r.header \cup DOMAIN header |->
                     IF k \in DOMAIN header THEN header[k] ELSE r.header[k]]]

\* The closure: nothing for a request without URL or for a host without
\* credentials; otherwise r.Header[k] = append(r.Header[k], v...) for every
\* key of headerer.Header().
SetHTTPHeadersFunc(r, authPerHost) ==
    IF r.urlNil THEN r
    ELSE IF r.host \notin DOMAIN authPerHost THEN r
    ELSE LET header == authPerHost[r.host]
         IN  [r EXCEPT !.header =
                 [k \in DOMAIN r.header \cup DOMAIN header |->
                     (IF k \in DOMAIN r.header THEN r.header[k] ELSE << >>)
                     \o (IF k \in DOMAIN header THEN header[k] ELSE << >>)]]

InitAuth ==
    /\ u \in Uploaders
    /\ pc = "setHeaders"
    /\ acifile = NoFile
    /\ ascfile = NoFile
    /\ defers = << >>
    /\ manifest = NoManifest
    /\ app = NoApp
    /\ manblob = NoBlob
    /\ initurl = ""
    /\ initDeets = NoDeets
    /\ part = 1
    /\ partErr = NilErr
    /\ res = NoRes
    /\ server = NoServer
    /\ lastBody = NoBody
    /\ ret = NotReturned
    /\ discoveryCalls = 0
    /\ eps = NoDiscovery
    /\ calls = << >>
    /\ bodies = << >>
    /\ conf \in AuthConfigs
    /\ req \in Requests
    /\ ConfigLoaded(conf)

\* u.SetHTTPHeaders(req)
ApplySetHTTPHeaders ==
    /\ pc = "setHeaders"
    /\ req' = SetHTTPHeadersFunc(req, conf)
    /\ pc' = "headersSet"
    /\ UNCHANGED << u, acifile, ascfile, defers, manifest, app, manblob, initurl,
                    initDeets, part, partErr, res, server, lastBody, ret,
                    discoveryCalls, eps, calls, bodies, conf,
                    cfg, loaded, loadRet >>

NextAuth == ApplySetHTTPHeaders

SpecAuth == InitAuth /\ [][NextAuth]_vars

----------------------------------------------------------------------------
(* Configuration loading on its own: config.GetConfigFrom(system, local),   *)
(* which runACPush calls before it builds the Uploader.                     *)

\* []string{system, local}
ConfigDirs == << "system", "local" >>

\* DockerCredentialsPerRegistry as a directory can configure it.
DockerConfigs ==
    { NoCreds,
      "registry.example" :> << "alice", "pw1" >>,
      "registry.example" :> << "bob", "pw2" >> }

\* What the configuration files of a directory add up to.
DirConfigs ==
    { [isNil |-> FALSE, AuthPerHost |-> a, DockerCredentialsPerRegistry |-> d] :
        a \in AuthConfigs, d \in DockerConfigs }

\* A configuration directory as the file system presents it: no such path,
\* a path os.Stat fails on, a path that is a regular file, a directory with
\* a file that does not parse, or a directory whose files parse to `cfg`.
DirStates ==
    { [kind |-> k, broken |-> FALSE, cfg |-> newConfig] : k \in {"missing", "unreadable", "file"} }
    \cup { [kind |-> "dir", broken |-> TRUE, cfg |-> newConfig] }
    \cup { [kind |-> "dir", broken |-> FALSE, cfg |-> c] : c \in DirConfigs }

\* validDir(path): (valid, err)
validDir(d) ==
    IF d.kind = "missing" THEN [valid |-> FALSE, err |-> NilErr]
    ELSE IF d.kind = "unreadable" THEN [valid |-> FALSE, err |-> Err(<< "permission denied" >>)]
    ELSE IF d.kind # "dir"
         THEN [valid |-> FALSE, err |-> Err(<< "expected ", "to be a directory" >>)]
    ELSE [valid |-> TRUE, err |-> NilErr]

\* GetConfigFromDir(dir): (subcfg, err)
GetConfigFromDir(d) ==
    IF validDir(d).err.isErr THEN [cfg |-> NilConfig, err |-> validDir(d).err]
    ELSE IF ~validDir(d).valid THEN [cfg |-> newConfig, err |-> NilErr]
    ELSE IF d.broken THEN [cfg |-> NilConfig, err |-> Err(<< "failed to parse" >>)]
    ELSE [cfg |-> d.cfg, err |-> NilErr]

\* config[k] = v for every entry of subconfig
Overwrite(config, subconfig) ==
    [k \in DOMAIN config \cup DOMAIN subconfig |->
        IF k \in DOMAIN subconfig THEN subconfig[k] ELSE config[k]]

\* mergeConfigs keeping the entry a host already has.
mergeConfigs_KeepExisting(config, subconfig) ==
    [config EXCEPT
        !.AuthPerHost = Overwrite(subconfig.AuthPerHost, config.AuthPerHost),
        !.DockerCredentialsPerRegistry =
            Overwrite(subconfig.DockerCredentialsPerRegistry, config.DockerCredentialsPerRegistry)]

\* mergeConfigs(config, subconfig)
mergeConfigs(config, subconfig) ==
    [config EXCEPT
        !.AuthPerHost = Overwrite(config.AuthPerHost, subconfig.AuthPerHost),
        !.DockerCredentialsPerRegistry =
            Overwrite(config.DockerCredentialsPerRegistry, subconfig.DockerCredentialsPerRegistry)]

\* cfg := newConfig(), before the loop of GetConfigFrom
InitConfig ==
    /\ u \in Uploaders
    /\ pc = "getConfigFrom"
    /\ acifile = NoFile
    /\ ascfile = NoFile
    /\ defers = << >>
    /\ manifest = NoManifest
    /\ app = NoApp
    /\ manblob = NoBlob
    /\ initurl = ""
    /\ initDeets = NoDeets
    /\ part = 1
    /\ partErr = NilErr
    /\ res = NoRes
    /\ server = NoServer
    /\ lastBody = NoBody
    /\ ret = NotReturned
    /\ discoveryCalls = 0
    /\ eps = NoDiscovery
    /\ calls = << >>
    /\ bodies = << >>
    /\ conf = NoAuth
    /\ req = NoRequest
    /\ cfg = newConfig
    /\ loaded = << >>
    /\ loadRet = NotLoaded

\* One turn of the loop of GetConfigFrom: the directory is read, and its
\* configuration merged or its error returned.
LoadConfigDir ==
    /\ pc = "getConfigFrom"
    /\ Len(loaded) < Len(ConfigDirs)
    /\ \E d \in DirStates :
         LET r == GetConfigFromDir(d)
         IN  /\ loaded' = Append(loaded, r)
             /\ IF r.err.isErr
                THEN /\ loadRet' = [returned |-> TRUE, cfg |-> NilConfig, err |-> r.err]
                     /\ pc' = "configFailed"
                     /\ cfg' = cfg
                ELSE /\ cfg' = mergeConfigs(cfg, r.cfg)
                     /\ UNCHANGED << loadRet, pc >>
    /\ UNCHANGED << u, acifile, ascfile, defers, manifest, app, manblob, initurl,
                    initDeets, part, partErr, res, server, lastBody, ret,
                    discoveryCalls, eps, calls, bodies, conf, req >>

\* `return cfg, nil`, and `conf, err := config.GetConfigFrom(...)` of runACPush
ReturnConfig ==
    /\ pc = "getConfigFrom"
    /\ Len(loaded) = Len(ConfigDirs)
    /\ loadRet' = [returned |-> TRUE, cfg |-> cfg, err |-> NilErr]
    /\ conf' = cfg.AuthPerHost
    /\ pc' = "configLoaded"
    /\ UNCHANGED << u, acifile, ascfile, defers, manifest, app, manblob, initurl,
                    initDeets, part, partErr, res, server, lastBody, ret,
                    discoveryCalls, eps, calls, bodies, req, cfg, loaded >>

NextConfig ==
    \/ LoadConfigDir
    \/ ReturnConfig

SpecConfig == InitConfig /\ [][NextConfig]_vars

----------------------------------------------------------------------------
(* Properties *)

PartLabels == {"manifest", "signature", "ACI"}

CallsOf(kinds) == { i \in 1..Len(calls) : calls[i].kind \in kinds }

Completions == CallsOf({"complete"})

SentCompletions == { i \in Completions : calls[i].issued }

FailedParts == { i \in CallsOf(PartLabels) : ~calls[i].ok }

AllPartsSucceeded ==
    \A l \in PartLabels : \E i \in CallsOf({l}) : calls[i].ok

\* The reply to the completion POST, as the claims describe it.
ReplyAccepted ==
    /\ lastBody.readable
    /\ lastBody.decodable
    /\ "success" \in DOMAIN lastBody.doc
    /\ lastBody.doc["success"] = TRUE

\* The text of the error of a failed report call `n`.
ReportErrText(n) ==
    IF ~calls[n].ok THEN calls[n].err.text
    ELSE IF ~lastBody.readable THEN << "unexpected EOF" >>
    ELSE IF ~lastBody.decodable THEN << "invalid character" >>
    ELSE IF "server_reason" \in DOMAIN lastBody.doc THEN lastBody.doc["server_reason"]
    ELSE << >>

ReportFailed(n) == ~calls[n].ok \/ ~ReplyAccepted

C2_PartOrder ==
    \A i \in CallsOf(PartLabels) :
        /\ (calls[i].kind = "signature" /\ calls[i].issued) =>
               \E j \in 1..(i - 1) : calls[j].kind = "manifest" /\ calls[j].ok
        /\ (calls[i].kind = "ACI" /\ calls[i].issued) =>
               \E j \in 1..(i - 1) : calls[j].kind = "signature" /\ calls[j].ok
        /\ ~calls[i].ok =>
               \A j \in (i + 1)..Len(calls) : calls[j].kind \notin PartLabels

\* The image PUT has been issued.
C2_Witness ==
    \E i \in CallsOf({"ACI"}) : calls[i].issued /\ calls[i].reqType = "PUT"

\* The label neither the target name nor the manifest supplies.
LabelMissing(name) ==
    name \notin DOMAIN u.Uri.labels /\ name \notin DOMAIN manifest.labels

\* C3: when neither the target name nor the manifest supplies arch, or
\* neither supplies os, Upload fails with the missing-label error naming
\* the key, without any discovery call or HTTP request.
C3_MissingLabel ==
    (/\ u.Uri.valid
     /\ manifest.ok
     /\ LabelMissing("arch") \/ LabelMissing("os")) =>
        /\ discoveryCalls = 0
        /\ calls = << >>
        /\ ~res.active
        /\ pc \in {"newApp", "labels", "defers", "done"}
        /\ pc \in {"defers", "done"} =>
             /\ ret.returned
             /\ ret.err.isErr
             /\ ret.err.text = << "manifest is missing label: ", "\"",
                                  IF LabelMissing("arch") THEN "arch" ELSE "os", "\"" >>

\* The session failed for os, the name supplying arch.
C3_Witness ==
    /\ pc = "done"
    /\ u.Uri.valid
    /\ manifest.ok
    /\ LabelMissing("os")
    /\ "arch" \in DOMAIN u.Uri.labels
    /\ ret.err.isErr

\* C4: a session that fails before initiation completes returns the error
\* of the failing step and sends neither a part PUT nor a Completion
\* Message; with zero endpoints discovered no initiation is attempted.
C4_FailBeforeInitiation ==
    /\ ~initDeets.ok => CallsOf(PartLabels \cup {"complete"}) = {}
    /\ (discoveryCalls >= 1 /\ (eps.err.isErr \/ eps.eps = << >>)) =>
        /\ calls = << >>
        /\ ~res.active
        /\ ret.returned
        /\ ret.err.isErr
        /\ eps.err.isErr => ret.err = eps.err
    /\ (ret.returned /\ ~initDeets.ok /\ calls # << >>) =>
        /\ Len(calls) = 1
        /\ calls[1].kind = "initiate"
        /\ ret.err.isErr
        /\ ~calls[1].ok => ret.err = calls[1].err
        /\ calls[1].ok =>
             /\ ~(lastBody.readable /\ lastBody.decodable)
             /\ ret.err.text \in {<< "unexpected EOF" >>, << "invalid character" >>}

\* Discovery returned no endpoint and the session has ended.
C4_Witness ==
    /\ pc = "done"
    /\ discoveryCalls = 1
    /\ ~eps.err.isErr
    /\ eps.eps = << >>
    /\ ret.err.isErr

\* The kinds of the calls of the session, in order.
CallKinds == [i \in 1..Len(calls) |-> calls[i].kind]

\* C5: Upload returns nil only after the labels were resolved, discovery and
\* initiation succeeded, the three part PUTs succeeded in order and the reply
\* to the success report decoded with success=true; a success report that
\* fails at the transport, is not decodable or is answered success=false
\* makes Upload return that error.
C5_DoneOnlyIfAccepted ==
    /\ (ret.returned /\ ~ret.err.isErr) =>
        /\ app.ok
        /\ {"arch", "os", "ext"} \subseteq DOMAIN app.labels
        /\ discoveryCalls = 1
        /\ ~eps.err.isErr
        /\ eps.eps # << >>
        /\ initDeets.ok
        /\ CallKinds = << "initiate", "manifest", "signature", "ACI", "complete" >>
        /\ \A i \in 1..Len(calls) : calls[i].ok /\ calls[i].issued
        /\ calls[5].msg = [success |-> TRUE]
        /\ ReplyAccepted
    /\ \A n \in Completions :
        (ret.returned /\ calls[n].msg["success"]) =>
            /\ ~calls[n].ok => ret.err = calls[n].err
            /\ ReportFailed(n) => ret.err.isErr /\ ret.err.text = ReportErrText(n)
            /\ ~ReportFailed(n) => ~ret.err.isErr

\* The session ended Done.
C5_Witness ==
    /\ pc = "done"
    /\ ~ret.err.isErr
    /\ ReplyAccepted

\* C6: when a part upload fails and the failure report fails too, Upload
\* returns one error made of the part's label, the part's error and the
\* report's error, and neither call was made a second time.
C6_CombinedError ==
    \A i \in FailedParts : \A n \in Completions :
        (ret.returned /\ ReportFailed(n)) =>
            /\ ret.err.isErr
            /\ ret.err.text =
                 << "error uploading ", calls[i].kind, " and error reporting failure: " >>
                 \o calls[i].err.text \o << ", " >> \o ReportErrText(n)
            /\ Cardinality(CallsOf({calls[i].kind})) = 1
            /\ Cardinality(Completions) = 1

\* The signature upload failed and the server rejected the failure report.
C6_Witness ==
    /\ pc = "done"
    /\ \E i \in FailedParts : calls[i].kind = "signature"
    /\ \E n \in Completions :
         /\ calls[n].ok
         /\ lastBody.readable
         /\ lastBody.decodable
         /\ lastBody.doc = [success |-> FALSE, server_reason |-> << "rejected by server" >>]

\* C7: when a part upload fails and the failure report is acknowledged with
\* success=true, Upload returns "error uploading <part>: <error>" alone,
\* the very text it sent as the reason of the report.
C7_PartErrorAlone ==
    \A i \in FailedParts : \A n \in Completions :
        (ret.returned /\ ~ReportFailed(n)) =>
            /\ ret.err.isErr
            /\ ret.err.text = << "error uploading ", calls[i].kind, ": " >> \o calls[i].err.text
            /\ calls[n].msg = [success |-> FALSE, reason |-> ret.err.text]

\* The image PUT was answered 500 and the failure report acknowledged.
C7_Witness ==
    /\ pc = "done"
    /\ \E i \in FailedParts :
         /\ calls[i].kind = "ACI"
         /\ calls[i].err.text = << "bad HTTP status code: ", "500" >>
    /\ \E n \in Completions : ~ReportFailed(n)

\* The call in flight reached the server.
ChainRan == res.active /\ Sends(res.trace) # {} /\ calls[Len(calls)].url # ""

\* C8: one performRequest call sends at most 10 requests; 9 redirects and
\* then 200 succeed, 10 redirects in a row give the too-many-redirects error.
C8_RedirectCeiling ==
    /\ res.active => Cardinality(Sends(res.trace)) <= 10
    /\ (ChainRan /\ server.redirects = 9 /\ ~server.fails /\ server.status = 200) =>
        /\ ~res.err.isErr
        /\ res.body = "open"
        /\ Cardinality(Sends(res.trace)) = 10
    /\ (ChainRan /\ server.redirects >= 10) =>
        /\ res.err.isErr
        /\ res.err.text = << "too many redirects" >>
        /\ res.body = "none"
        /\ Cardinality(Sends(res.trace)) = 10

\* Nine redirects, then 200.
C8_Witness ==
    /\ ChainRan
    /\ server.redirects = 9
    /\ ~server.fails
    /\ server.status = 200
    /\ ~res.err.isErr

\* C9: in one performRequest call SetHTTPHeaders is invoked on every request
\* right before it is sent, so there are as many invocations as requests:
\* 10 for 9 redirects followed by 200.
C9_HeadersOnEveryRequest ==
    res.active =>
        /\ \A i \in Sends(res.trace) : i > 1 /\ res.trace[i - 1] = HdrEv(res.trace[i].hop)
        /\ \A i, j \in Sends(res.trace) : res.trace[i].hop = res.trace[j].hop => i = j
        /\ Cardinality(HdrCalls(res.trace)) = Cardinality(Sends(res.trace))
        /\ (ChainRan /\ server.redirects = 9 /\ ~server.fails /\ server.status = 200) =>
             Cardinality(HdrCalls(res.trace)) = 10

\* A chain with a redirect that was followed.
C9_Witness ==
    /\ ChainRan
    /\ server.redirects = 9
    /\ ~server.fails
    /\ server.status = 200
    /\ Cardinality(HdrCalls(res.trace)) = 10

\* C10: performRequest hands the body to its caller without error exactly
\* for the final codes 200 and 400; any other code gives the error that
\* carries the code, no body, and a closed response body.
C10_StatusClassification ==
    (res.active /\ res.status # 0) =>
        /\ res.status = server.status
        /\ (~res.err.isErr /\ res.body = "open") <=> res.status \in {200, 400}
        /\ res.status \notin {200, 400} =>
             /\ res.err.isErr
             /\ res.err.text = << "bad HTTP status code: ", ToString(res.status) >>
             /\ res.body = "closed"

\* A 404 was classified.
C10_Witness ==
    /\ res.active
    /\ res.status = 404
    /\ res.body = "closed"

\* The file a part is read from.
PartFile(i) == IF i = 2 THEN ascfile ELSE acifile

\* C11: when Upload has returned, whatever the stage it failed at, no file
\* handle it opened is still open, and a handle is open whenever the session
\* is about to read from it: manifest extraction, the rewind, and the PUT of
\* the signature and of the image.
C11_HandlesReleased ==
    /\ pc = "done" => acifile.state # "open" /\ ascfile.state # "open"
    /\ pc = "done" =>
         /\ acifile.state = "unopened" => ascfile.state = "unopened" /\ calls = << >>
         /\ ascfile.state = "unopened" => calls = << >> /\ ~manifest.ok
    /\ pc \in {"manifestFromImage", "seek"} => acifile.state = "open"
    /\ (pc = "uploadPart" /\ part \in {2, 3}) => PartFile(part).state = "open"
    /\ pc \notin {"defers", "done"} => defers = << "acifile", "ascfile" >> \/ pc \in {"openAci", "openAsc"}

\* The signature could not be opened after the image was: the image handle
\* has been closed.
C11_Witness ==
    /\ pc = "done"
    /\ acifile.state = "closed"
    /\ ascfile.state = "unopened"
    /\ ret.err.isErr

\* The logical steps of a session that go through performRequest.
StepKinds == {"initiate", "manifest", "signature", "ACI", "complete"}

\* Each step has been attempted at most once so far.
AtMostOnce ==
    /\ discoveryCalls <= 1
    /\ \A k \in StepKinds : Cardinality(CallsOf({k})) <= 1
    /\ \A i \in 1..Len(calls) : calls[i].kind \in StepKinds
    /\ Len(calls) <= 5

\* Upload has returned, Done or Failed, and its deferred calls have run.
Terminated == pc = "done" /\ ret.returned /\ ~res.active

\* C12: discovery, the initiation POST, each part PUT and the completion
\* POST are attempted at most once in a session, which therefore makes at
\* most 5 performRequest calls, and whatever the environment answers the
\* session eventually returns.
C12_NoRetryAndTermination == []AtMostOnce /\ <>Terminated

\* A session that made all five calls and returned.
C12_Witness ==
    /\ Terminated
    /\ discoveryCalls = 1
    /\ Len(calls) = 5
    /\ \E i \in FailedParts : calls[i].kind = "ACI"

\* The three label blocks of Upload are behind the session.
LabelsResolved ==
    /\ app.ok
    /\ pc \notin {"newApp", "labels"}
    /\ ~(ret.returned /\ \E k \in {"arch", "os"} : ret.err = MissingLabelErr(k))

\* C13: once label resolution has succeeded the target name carries arch,
\* os and ext, at the discovery call too, ext being "aci" when the target
\* name did not supply it; resolution succeeds for every combination of
\* labels in which arch and os each come from the name or the manifest.
C13_LabelsComplete ==
    /\ LabelsResolved =>
         /\ {"arch", "os", "ext"} \subseteq DOMAIN app.labels
         /\ "ext" \notin DOMAIN u.Uri.labels => app.labels["ext"] = << "aci" >>
    /\ discoveryCalls >= 1 => LabelsResolved
    /\ (app.ok /\ pc \notin {"newApp", "labels"} /\ ~LabelMissing("arch") /\ ~LabelMissing("os"))
         => LabelsResolved

\* Discovery is called for a name without ext whose manifest has one.
C13_Witness ==
    /\ discoveryCalls = 1
    /\ "ext" \notin DOMAIN u.Uri.labels
    /\ "ext" \in DOMAIN manifest.labels
    /\ DOMAIN u.Uri.labels = {"version"}
    /\ app.labels["ext"] = << "aci" >>

\* C14: label resolution leaves every label of the target name as it was,
\* whatever the manifest says; a label it adds is arch or os with the
\* manifest's value, or ext with the default, never the manifest's ext; and
\* no missing-label error names a label the target name carries.
C14_NameLabelsWin ==
    app.ok =>
        /\ \A k \in DOMAIN u.Uri.labels :
             k \in DOMAIN app.labels /\ app.labels[k] = u.Uri.labels[k]
        /\ \A k \in DOMAIN app.labels \ DOMAIN u.Uri.labels :
             \/ /\ k \in {"arch", "os"}
                /\ k \in DOMAIN manifest.labels
                /\ app.labels[k] = manifest.labels[k]
             \/ /\ k = "ext"
                /\ k \in DOMAIN manifest.labels => app.labels[k] # manifest.labels[k]
        /\ \A k \in DOMAIN u.Uri.labels : ret.err # MissingLabelErr(k)

\* The name carries arch, ext and version with values other than the
\* manifest's, and os was copied from the manifest.
C14_Witness ==
    /\ pc = "discover"
    /\ DOMAIN u.Uri.labels = {"arch", "ext", "version"}
    /\ DOMAIN manifest.labels = {"arch", "os", "ext", "version"}
    /\ app.labels["arch"] = << "arm64" >>
    /\ app.labels["os"] = << "linux" >>
    /\ app.labels["version"] = << "1.0.0" >>

\* The performRequest call the session is about to make, as a session with
\* the debug flag `debug` makes it, the environment answering with `srv`
\* and file.Stat() failing or not.
NextCall(debug, srv, statFails) ==
    IF pc = "initiate"
    THEN performRequest(debug, initurl, FALSE, FALSE, FALSE, srv)
    ELSE IF pc = "uploadPart"
    THEN LET p == PartsToUpload(initDeets.details)[part]
         IN  performRequest(debug, p.url, IsFile(p.src), p.draw, statFails, srv)
    ELSE performRequest(debug, initDeets.details.CompletedURL, FALSE, FALSE, FALSE, srv)

\* C15: the debug flag changes neither the requests of a call nor its
\* result: wherever the session is about to call performRequest, a session
\* with Debug set and one without, given the same file and the same answers
\* of the server, send the same requests and get the same error, status and
\* body.
C15_DebugIsSideChannel ==
    pc \in {"initiate", "uploadPart", "reportFailure", "reportSuccess"} =>
        \A srv \in ServerBehaviours : \A statFails \in BOOLEAN :
            NextCall(TRUE, srv, statFails) = NextCall(FALSE, srv, statFails)

\* The sequence `new` is `old` followed by `added`.
Extends(new, old, added) == new = old \o added

\* The values of key k in header h, none when the key is absent.
Values(h, k) == IF k \in DOMAIN h THEN h[k] ELSE << >>

\* One run of the closure, from req to req'.
Injection ==
    /\ pc = "setHeaders"
    /\ pc' = "headersSet"

\* C16: the closure leaves a request without URL, or for a host without
\* credentials, as it was; for a host with credentials every key of the
\* request keeps its values, in order, followed by the configured values of
\* that key, and no other key appears; the closure always returns.
C16_AuthAdditive ==
    [][ /\ pc = "setHeaders" => pc' = "headersSet"
        /\ Injection =>
             /\ req'.urlNil = req.urlNil /\ req'.host = req.host
             /\ (req.urlNil \/ req.host \notin DOMAIN conf) => req'.header = req.header
             /\ (~req.urlNil /\ req.host \in DOMAIN conf) =>
                  /\ DOMAIN req'.header = DOMAIN req.header \cup DOMAIN conf[req.host]
                  /\ \A k \in DOMAIN req'.header :
                       Extends(req'.header[k], Values(req.header, k), Values(conf[req.host], k))
      ]_vars

\* A request that carried an Authorization value got the two configured
\* ones behind it.
C16_Witness ==
    /\ pc = "headersSet"
    /\ ~req.urlNil
    /\ req.host \in DOMAIN conf
    /\ req.header["Authorization"] = << "Basic old", "Bearer token", "Bearer spare" >>
    /\ req.header["User-Agent"] = << "acpush" >>

\* The part PUT in flight got a final answer of 200 or 400.
PartAnswered ==
    pc = "uploadPartResponse" /\ res.active /\ res.status \in {200, 400}

\* What C17 says of a state: a part PUT answered 200 or 400 is a successful
\* call, a part call is successful only so, and once the three part calls
\* have succeeded there is no failure report and the report sent says
\* success.
PartsThenSuccess ==
    /\ PartAnswered => ~res.err.isErr /\ calls[Len(calls)].ok
    /\ (pc = "uploadPartResponse" /\ calls[Len(calls)].ok) => PartAnswered
    /\ AllPartsSucceeded =>
         /\ pc \in {"uploadPartResponse", "reportSuccess", "reportSuccessResponse",
                    "defers", "done"}
         /\ \A n \in Completions : calls[n].msg = [success |-> TRUE]
         /\ pc \in {"reportSuccessResponse", "defers", "done"} => Completions # {}

\* C17: a part PUT answered 400 is a success like one answered 200: the
\* session goes on to the next part, or after the third part to the success
\* report, and when the three part PUTs were answered 200 or 400 the
\* Completion Message says success and no failure is reported.
C17_BadRequestCounts ==
    /\ []PartsThenSuccess
    /\ [][ PartAnswered =>
             /\ partErr' = NilErr
             /\ part < 3 => pc' = "uploadPart" /\ part' = part + 1
             /\ part = 3 => pc' = "reportSuccess" ]_vars

\* The image PUT, last of three successful parts, was answered 400.
C17_Witness ==
    /\ PartAnswered
    /\ res.status = 400
    /\ part = 3
    /\ AllPartsSucceeded

\* The error Upload returns when acifile.Seek fails.
SeekErr == Err(<< "seek ", u.Acipath, ": invalid argument" >>)

\* C18: from the rewind on the image file is at offset 0, so the body of
\* the image PUT starts at offset 0 whatever position manifest extraction
\* left; a failed rewind ends the session with its error before discovery
\* and before any request.
C18_RewoundBeforeUpload ==
    /\ \A i \in CallsOf({"ACI"}) : calls[i].bodyFrom = 0
    /\ (pc \in {"marshal", "discover", "initiate"} \/ calls # << >>) => acifile.offset = 0
    /\ (discoveryCalls >= 1 \/ calls # << >>) => ~(ret.returned /\ ret.err = SeekErr)
    /\ (ret.returned /\ ret.err = SeekErr) =>
         /\ discoveryCalls = 0
         /\ calls = << >>
         /\ ~manblob.ok

\* The image PUT was sent, reading the file from its start.
C18_Witness ==
    \E i \in CallsOf({"ACI"}) :
        /\ calls[i].issued
        /\ calls[i].bodyFrom = 0
        /\ acifile.offset = 0

\* C19: a response body is open only while the call that obtained it is in
\* flight: the caller has closed it by the time it returns, also when
\* reading or decoding it failed or the server rejected the report, so none
\* is open when Upload returns.
C19_BodiesClosed ==
    /\ Len(bodies) = Len(calls)
    /\ \A i \in 1..Len(bodies) :
         /\ bodies[i] = "open" => i = Len(calls) /\ res.active /\ ~ret.returned
         /\ calls[i].ok => bodies[i] \in {"open", "closed"}
         /\ (calls[i].ok /\ ~(i = Len(calls) /\ res.active)) => bodies[i] = "closed"
    /\ ret.returned => \A i \in 1..Len(bodies) : bodies[i] # "open"

\* The body of the reply to the completion POST could not be read.
C19_Witness ==
    /\ pc = "done"
    /\ Len(calls) = 5
    /\ calls[5].ok
    /\ ~lastBody.readable
    /\ \A i \in 1..5 : bodies[i] = "closed"

\* The reply to the failure report decoded, and its success is false or
\* absent.
ReportDeclined(n) ==
    /\ calls[n].ok
    /\ lastBody.readable
    /\ lastBody.decodable
    /\ "success" \in DOMAIN lastBody.doc => lastBody.doc["success"] = FALSE

\* C20: when a part upload failed and the reply to the failure report
\* decodes with success false or absent, the report counts as failed:
\* Upload returns the combined error, ending with the server's reason (empty
\* when the reply has none), not the error of the part alone.
C20_DeclinedReport ==
    \A i \in FailedParts : \A n \in Completions :
        (ret.returned /\ ReportDeclined(n)) =>
            /\ ret.err.isErr
            /\ ret.err.text # << "error uploading ", calls[i].kind, ": " >> \o calls[i].err.text
            /\ ret.err.text =
                 << "error uploading ", calls[i].kind, " and error reporting failure: " >>
                 \o calls[i].err.text \o << ", " >>
                 \o (IF "server_reason" \in DOMAIN lastBody.doc
                     THEN lastBody.doc["server_reason"] ELSE << >>)

\* The manifest upload failed and the reply to the report was `{}`.
C20_Witness ==
    /\ pc = "done"
    /\ \E i \in FailedParts : calls[i].kind = "manifest"
    /\ \E n \in Completions : ReportDeclined(n)
    /\ lastBody.doc = NoDoc

\* Reading one of the directories failed.
LoadFailed == \E i \in 1..Len(loaded) : loaded[i].err.isErr

\* C21: the Config GetConfigFrom returns maps a host of the local
\* configuration to the local entry and a host of the system configuration
\* alone to the system entry, and has no other host; when reading either
\* directory fails it returns that error and a nil Config.
C21_LocalOverridesSystem ==
    /\ (loadRet.returned /\ ~loadRet.err.isErr) =>
         /\ ~LoadFailed
         /\ Len(loaded) = 2
         /\ ~loadRet.cfg.isNil
         /\ conf = loadRet.cfg.AuthPerHost
         /\ LET system == loaded[1].cfg.AuthPerHost
                local == loaded[2].cfg.AuthPerHost
            IN  /\ DOMAIN conf = DOMAIN system \cup DOMAIN local
                /\ \A h \in DOMAIN local : conf[h] = local[h]
                /\ \A h \in DOMAIN system \ DOMAIN local : conf[h] = system[h]
    /\ LoadFailed =>
         /\ loadRet.returned
         /\ loadRet.err.isErr
         /\ loadRet.err = loaded[Len(loaded)].err
         /\ loadRet.cfg.isNil
         /\ conf = NoAuth
    /\ (loadRet.returned /\ loadRet.err.isErr) => LoadFailed /\ loadRet.cfg.isNil

\* Both directories configure push.example, differently, and the system
\* directory alone configures mirror.example.
C21_Witness ==
    /\ pc = "configLoaded"
    /\ Len(loaded) = 2
    /\ DOMAIN loaded[1].cfg.AuthPerHost = {"push.example", "mirror.example"}
    /\ DOMAIN loaded[2].cfg.AuthPerHost = {"push.example"}
    /\ loaded[1].cfg.AuthPerHost["push.example"] # loaded[2].cfg.AuthPerHost["push.example"]
    /\ conf["push.example"] = loaded[2].cfg.AuthPerHost["push.example"]
    /\ conf["mirror.example"] = loaded[1].cfg.AuthPerHost["mirror.example"]

====
